---------------------------- MODULE Spec2Model ----------------------------
(***************************************************************************)
(* A model of mcp-grpcurl (src/main.go): the four tool handlers            *)
(* registered by registerTools (set-headers, invoke, list, describe), the  *)
(* global header mapping they share, the connection each of them dials,    *)
(* the event handler that captures trailers and the one-shot request       *)
(* supplier handed to grpcurl.InvokeRPC.                                   *)
(*                                                                         *)
(* Each handler invocation runs in a slot p of Procs.  A handler is cut    *)
(* into steps at its accesses to g.headers and at its calls into the       *)
(* libraries (dial, reflection, InvokeRPC and the callbacks InvokeRPC      *)
(* makes); the libraries' outcomes are nondeterministic inputs.            *)
(***************************************************************************)
EXTENDS Integers, Sequences, FiniteSets, TLC

VARIABLES
    gHeaders,        \* GrpcReflectionServer.headers (src/main.go:523)
    lastCommitted,   \* history: gHeaders when no set-headers update was last under way
    openConns,       \* number of connections dialled and not yet closed
    pc,              \* [Procs -> position of the handler running in the slot]
    loc,             \* [Procs -> the handler's arguments, locals and result]
    fatal            \* the Go runtime has thrown on a concurrent map access

vars == <<gHeaders, lastCommitted, openConns, pc, loc, fatal>>

---------------------------------------------------------------------------
(* Bounds and input sets *)

NumProcs == 2
MaxSupply == 2
MaxFrames == 2
MaxEntities == 2

Procs == 1..NumProcs

Keys == {"a", "b"}
Vals == {"x", "y"}

Nil == "nil"

RangeOf(s) == {s[i] : i \in DOMAIN s}

EmptyMap == [k \in {} |-> "x"]

---------------------------------------------------------------------------
(* JSON header arguments *)

\* A JSON-bearing string argument: the empty string (the argument is missing:
\* args["headers"].(string) yields ""), a text that json.Unmarshal rejects
\* for a map[string]string, or an object given by its members in text order
\* (a JSON object may repeat a key).
EmptyDoc == [text |-> "empty", members |-> <<>>]
MalformedDoc == [text |-> "malformed", members |-> <<>>]
Obj(ms) == [text |-> "object", members |-> ms]

HeaderDocs ==
    { EmptyDoc, MalformedDoc,
      Obj(<<>>),
      Obj(<< <<"a", "x">> >>),
      Obj(<< <<"a", "y">>, <<"b", "y">> >>),
      Obj(<< <<"b", "x">> >>),
      Obj(<< <<"a", "x">>, <<"a", "y">> >>) }

\* m with key k set to v: Go's m[k] = v.
MapStore(m, k, v) ==
    [x \in DOMAIN m \cup {k} |-> IF x = k THEN v ELSE m[x]]

RECURSIVE DecodeMembers(_, _)
DecodeMembers(ms, m) ==
    IF ms = <<>> THEN m
    ELSE DecodeMembers(Tail(ms), MapStore(m, Head(ms)[1], Head(ms)[2]))

\* json.Unmarshal([]byte(doc), &map[string]string{}): an error for the empty
\* and the malformed text, otherwise the members stored in text order, a
\* repeated key keeping its last value.
Unmarshal(doc) ==
    IF doc.text = "object"
    THEN [err |-> FALSE, val |-> DecodeMembers(doc.members, EmptyMap)]
    ELSE [err |-> TRUE, val |-> EmptyMap]

\* fmt.Sprintf("%s: %s", k, v)
Sprintf(k, v) == k \o ": " \o v

\* The orders in which a range over a map with key set S may visit it.
Orders(S) ==
    {s \in [1..Cardinality(S) -> S] : \A i, j \in 1..Cardinality(S) : s[i] = s[j] => i = j}

---------------------------------------------------------------------------
(* Results *)

toolSuccess(kind, val) == [isError |-> FALSE, msg |-> kind, val |-> val]
toolError(msg, val) == [isError |-> TRUE, msg |-> msg, val |-> val]

---------------------------------------------------------------------------
(* Handler locals *)

NoIter == [on |-> FALSE, attached |-> FALSE, snap |-> EmptyMap,
           base |-> {}, got |-> EmptyMap, snaps |-> {}]

\* A metadata.MD: nil, or a map from keys to lists of values.
NilMD == [nil |-> TRUE, md |-> <<>>]
MD(m) == [nil |-> FALSE, md |-> m]

NoHandler == [headers |-> NilMD, trailers |-> NilMD, Status |-> Nil]

NoResult == [isError |-> FALSE, msg |-> "none", val |-> <<>>]

Blank ==
    [ tool |-> "none",
      args |-> <<>>,
      g0 |-> EmptyMap,            \* history: gHeaders when the handler was called
      newHeaders |-> EmptyMap,    \* set-headers: the parsed argument
      todo |-> {},                \* set-headers: keys of newHeaders not yet stored
      iter |-> NoIter,            \* the range over g.headers under way
      headers |-> <<>>,           \* invoke: the "name: value" list
      cc |-> Nil,                 \* the connection: Nil, "open", "closed"
      dials |-> 0,                \* history: calls of BlockingDial
      defers |-> <<>>,            \* deferred calls, in registration order
      handler |-> NoHandler,      \* invoke: the customEventHandler
      used |-> FALSE,             \* invoke: singleMessageSupplier.used
      supplied |-> <<>>,          \* history: what each Supply call returned
      decodes |-> 0,              \* history: calls of jsonpb.Unmarshal
      sent |-> NilMD,               \* history: the header metadata the server sent
      frames |-> <<>>,            \* history: the trailer frames delivered
      tmp |-> <<>>,               \* describe: the entity names
      results |-> <<>>,           \* describe: the descriptions so far
      lookups |-> <<>>,           \* history: the names given to FindSymbol
      result |-> NoResult ]

Init ==
    /\ gHeaders = EmptyMap
    /\ lastCommitted = EmptyMap
    /\ openConns = 0
    /\ pc = [p \in Procs |-> "idle"]
    /\ loc = [p \in Procs |-> Blank]
    /\ fatal = FALSE

\* Whether the deferred calls of a handler include cc.Close().
ClosesOnReturn(l) == "cc.Close" \in RangeOf(l.defers)

\* return res: the deferred calls run (cc.Close() when it was deferred) and
\* the result is handed to the server.
Return(p, l, res) ==
    /\ loc' = [loc EXCEPT ![p] =
                 [l EXCEPT !.result = res,
                           !.cc = IF ClosesOnReturn(l) /\ l.cc = "open" THEN "closed" ELSE @,
                           !.defers = <<>>]]
    /\ openConns' = IF ClosesOnReturn(l) /\ l.cc = "open" THEN openConns - 1 ELSE openConns
    /\ pc' = [pc EXCEPT ![p] = "done"]

\* The server has written the handler's result; the slot takes the next call.
Reply(p) ==
    /\ pc[p] = "done"
    /\ pc' = [pc EXCEPT ![p] = "idle"]
    /\ loc' = [loc EXCEPT ![p] = Blank]
    /\ UNCHANGED <<gHeaders, lastCommitted, openConns, fatal>>

---------------------------------------------------------------------------
(* Ranging over g.headers *)

\* No set-headers handler is between its first and its last store.
QuiescentPc(f) == \A q \in Procs : f[q] # "sh_update"

\* for k, v := range g.headers: the map g.headers names at this moment is
\* the one ranged over, whatever g.headers is assigned later.
BeginRange(l) ==
    [l EXCEPT !.iter = [on |-> TRUE, attached |-> TRUE, snap |-> EmptyMap,
                        base |-> DOMAIN gHeaders, got |-> EmptyMap,
                        snaps |-> {lastCommitted}]]

\* The map an iterator ranges over: the one g.headers still names, or the
\* one it named before a set-headers call replaced it (which nothing writes
\* any more).
IterMap(it) == IF it.attached THEN gHeaders ELSE it.snap

\* The entries the next iteration may produce.
IterNext(it) == DOMAIN IterMap(it) \ DOMAIN it.got

\* The range may end once every entry present when it began was produced: an
\* entry created during the range is produced or skipped.
IterMayEnd(it) == it.base \subseteq DOMAIN it.got

IterRead(it, k) == [it EXCEPT !.got = MapStore(it.got, k, IterMap(it)[k])]

---------------------------------------------------------------------------
(* set-headers (src/main.go:82-115) *)

SetHeadersArgs == [headers : HeaderDocs, clear : BOOLEAN]

\* An iterator of another handler when g.headers is assigned a new map: it
\* keeps ranging over the map g.headers named until now.
Detach(l) ==
    IF l.iter.on /\ l.iter.attached
    THEN [l EXCEPT !.iter.attached = FALSE, !.iter.snap = gHeaders]
    ELSE l

\* History: an iterator under way records every committed mapping.
Observe(l, c) ==
    IF l.iter.on THEN [l EXCEPT !.iter.snaps = @ \cup {c}] ELSE l

\* A faulty store: a key that is present keeps its value.
KeepExistingHeader(g, k, v) ==
    [x \in DOMAIN g \cup {k} |-> IF x \in DOMAIN g THEN g[x] ELSE v]

\* g.headers[k] = v (line 100)
SetHeader(g, k, v) == MapStore(g, k, v)

\* A faulty call: the mapping is cleared before "headers" is parsed.
SetHeadersCallClearFirst(p, a) ==
    /\ pc[p] = "idle"
    /\ LET l == [Blank EXCEPT !.tool = "set-headers", !.args = a, !.g0 = gHeaders]
           u == Unmarshal(a.headers)
       IN  IF u.err
           THEN /\ Return(p, l, toolError("Failed to parse headers JSON", <<>>))
                /\ gHeaders' = IF a.clear THEN EmptyMap ELSE gHeaders
           ELSE /\ loc' = [loc EXCEPT ![p] = [l EXCEPT !.newHeaders = u.val]]
                /\ pc' = [pc EXCEPT ![p] = "sh_clear"]
                /\ UNCHANGED <<openConns, gHeaders>>
    /\ UNCHANGED <<lastCommitted, fatal>>

\* Lines 83-91: the arguments are read and "headers" is parsed; a parse
\* failure returns before g.headers is touched.
SetHeadersCall(p, a) ==
    /\ pc[p] = "idle"
    /\ LET l == [Blank EXCEPT !.tool = "set-headers", !.args = a, !.g0 = gHeaders]
           u == Unmarshal(a.headers)
       IN  IF u.err
           THEN Return(p, l, toolError("Failed to parse headers JSON", <<>>))
           ELSE /\ loc' = [loc EXCEPT ![p] = [l EXCEPT !.newHeaders = u.val]]
                /\ pc' = [pc EXCEPT ![p] = "sh_clear"]
                /\ UNCHANGED openConns
    /\ UNCHANGED <<gHeaders, lastCommitted, fatal>>

\* Lines 94-96: if clear, g.headers is assigned a new empty map.
SetHeadersClear(p) ==
    /\ pc[p] = "sh_clear"
    /\ LET l == loc[p]
           g1 == IF l.args.clear THEN EmptyMap ELSE gHeaders
       IN  /\ gHeaders' = g1
           /\ pc' = [pc EXCEPT ![p] =
                       IF DOMAIN l.newHeaders = {} THEN "sh_range" ELSE "sh_update"]
           /\ lastCommitted' = IF QuiescentPc(pc') THEN g1 ELSE lastCommitted
           /\ loc' = [q \in Procs |->
                        IF q = p
                        THEN [l EXCEPT !.todo = DOMAIN l.newHeaders]
                        ELSE Observe(IF l.args.clear THEN Detach(loc[q]) ELSE loc[q],
                                     lastCommitted')]
    /\ UNCHANGED <<openConns, fatal>>

\* Lines 99-101: one iteration of the loop storing newHeaders in g.headers.
SetHeadersUpdate(p) ==
    /\ pc[p] = "sh_update"
    /\ \E k \in loc[p].todo :
         LET l == loc[p]
             todo1 == l.todo \ {k}
         IN  /\ gHeaders' = SetHeader(gHeaders, k, l.newHeaders[k])
             /\ pc' = [pc EXCEPT ![p] = IF todo1 = {} THEN "sh_range" ELSE "sh_update"]
             /\ lastCommitted' = IF QuiescentPc(pc') THEN gHeaders' ELSE lastCommitted
             /\ loc' = [q \in Procs |->
                          IF q = p THEN [l EXCEPT !.todo = todo1]
                          ELSE Observe(loc[q], lastCommitted')]
    /\ UNCHANGED <<openConns, fatal>>

\* Line 105: the range over g.headers for display begins.
SetHeadersRange(p) ==
    /\ pc[p] = "sh_range"
    /\ loc' = [loc EXCEPT ![p] = BeginRange(loc[p])]
    /\ pc' = [pc EXCEPT ![p] = "sh_read"]
    /\ UNCHANGED <<gHeaders, lastCommitted, openConns, fatal>>

\* Lines 105-107: one iteration, headersMap[k] = v.
SetHeadersRead(p) ==
    /\ pc[p] = "sh_read"
    /\ \E k \in IterNext(loc[p].iter) :
         loc' = [loc EXCEPT ![p].iter = IterRead(loc[p].iter, k)]
    /\ UNCHANGED <<gHeaders, lastCommitted, openConns, pc, fatal>>

\* Lines 109-114: headersMap is marshalled (a map of strings always is) and
\* returned.
SetHeadersReturn(p) ==
    /\ pc[p] = "sh_read"
    /\ IterMayEnd(loc[p].iter)
    /\ LET l == [loc[p] EXCEPT !.iter.on = FALSE]
       IN  Return(p, l, toolSuccess("Headers updated successfully", l.iter.got))
    /\ UNCHANGED <<gHeaders, lastCommitted, fatal>>

---------------------------------------------------------------------------
(* Metadata, the event handler and the request supplier *)

\* The trailer frames and header metadata a server may send.
LightMDs == {NilMD, MD([k \in {"t"} |-> <<"1">>])}

RichMDs ==
    { NilMD,
      MD(<<>>),
      MD([k \in {"k"} |-> <<"a">>]),
      MD([k \in {"k"} |-> <<"b">>]),
      MD([k \in {"j"} |-> <<"a">>]),
      MD([k \in {"k", "j"} |-> IF k = "k" THEN <<"a", "b">> ELSE <<"b">>]) }

Statuses == {"OK", "NotFound"}

\* A faulty accumulation: a later frame's values replace the captured ones.
OverwriteTrailers(tr, md) ==
    IF tr.nil THEN md
    ELSE IF md.nil THEN tr
    ELSE MD([k \in DOMAIN tr.md \cup DOMAIN md.md |->
               IF k \in DOMAIN md.md THEN md.md[k] ELSE tr.md[k]])

\* customEventHandler.OnReceiveTrailers, lines 37-43: the first non-nil
\* metadata becomes h.trailers; later frames are appended key by key.
AccumulateTrailers(tr, md) ==
    IF tr.nil THEN md
    ELSE IF md.nil THEN tr
    ELSE MD([k \in DOMAIN tr.md \cup DOMAIN md.md |->
               IF k \in DOMAIN md.md
               THEN (IF k \in DOMAIN tr.md THEN tr.md[k] ELSE <<>>) \o md.md[k]
               ELSE tr.md[k]])

\* metadataToMap, lines 431-442: a key with one value maps to the value, a
\* key with several to the list, a key with none is left out.
metadataToMap(md) ==
    IF md.nil THEN <<>>
    ELSE [k \in {x \in DOMAIN md.md : Len(md.md[x]) > 0} |->
            IF Len(md.md[k]) = 1
            THEN [scalar |-> md.md[k][1]]
            ELSE [array |-> md.md[k]]]

\* The request payloads: missing (""), a JSON document of the method's
\* request type, and a text that is not one.
RequestData == {"", "{valid}", "{invalid"}

\* jsonpb.Unmarshal(bytes.NewReader(data), msg), line 456.
JsonpbUnmarshal(data) ==
    CASE data = "" -> "EOF"
      [] data = "{valid}" -> "nil"
      [] OTHER -> "error"

\* A faulty supplier: used is set only when the request decoded.
SupplyRetryAfterError(used, data) ==
    IF used
    THEN [used |-> TRUE, ret |-> "EOF", decoded |-> FALSE]
    ELSE [used |-> JsonpbUnmarshal(data) = "nil", ret |-> JsonpbUnmarshal(data),
          decoded |-> TRUE]

\* singleMessageSupplier.Supply, lines 451-457: the new value of used, what
\* the call returns and whether it decoded.
SupplyCall(used, data) ==
    IF used
    THEN [used |-> TRUE, ret |-> "EOF", decoded |-> FALSE]
    ELSE [used |-> TRUE, ret |-> JsonpbUnmarshal(data), decoded |-> TRUE]

---------------------------------------------------------------------------
(* Dialling *)

\* A faulty dial: cc.Close() is not deferred.
DialledNoDefer(l) ==
    [l EXCEPT !.cc = "open", !.dials = @ + 1]

\* grpcurl.BlockingDial followed by defer cc.Close() (lines 165-169, 253-257,
\* 305-309): the locals after a dial that succeeded.
Dialled(l) ==
    [l EXCEPT !.cc = "open", !.dials = @ + 1, !.defers = Append(@, "cc.Close")]

\* The dial of handler p with locals l, which goes on at position next when
\* it succeeds and returns an error when it fails.
BlockingDial(p, l, ok, next) ==
    IF ok
    THEN /\ loc' = [loc EXCEPT ![p] = Dialled(l)]
         /\ openConns' = openConns + 1
         /\ pc' = [pc EXCEPT ![p] = next]
    ELSE Return(p, [l EXCEPT !.dials = @ + 1],
                toolError("Failed to create gRPC connection", <<>>))

---------------------------------------------------------------------------
(* invoke (src/main.go:129-234) *)

Methods == {"", "pkg.Svc/Method"}

InvokeArgs == [method : Methods, request : RequestData, headers : HeaderDocs]

\* A faulty merge: a per-call header replaces the global header of its name.
ReplaceGlobalHeaders(headers, P, order) ==
    SelectSeq(headers, LAMBDA s : \A k \in DOMAIN P, v \in Vals : s # Sprintf(k, v))
      \o [i \in 1..Len(order) |-> Sprintf(order[i], P[order[i]])]

\* Lines 149-151: the per-call headers are appended, in the order the range
\* over requestHeaders visits them.
AppendRequestHeaders(headers, P, order) ==
    headers \o [i \in 1..Len(order) |-> Sprintf(order[i], P[order[i]])]

\* Lines 130-139: the arguments are read, headers is empty and the range
\* over g.headers begins.
InvokeCall(p, a) ==
    /\ pc[p] = "idle"
    /\ loc' = [loc EXCEPT ![p] =
                 BeginRange([Blank EXCEPT !.tool = "invoke", !.args = a, !.g0 = gHeaders])]
    /\ pc' = [pc EXCEPT ![p] = "inv_read"]
    /\ UNCHANGED <<gHeaders, lastCommitted, openConns, fatal>>

\* Lines 139-141: one iteration, headers = append(headers, "k: v").
InvokeRead(p) ==
    /\ pc[p] = "inv_read"
    /\ \E k \in IterNext(loc[p].iter) :
         LET it == IterRead(loc[p].iter, k)
         IN  loc' = [loc EXCEPT ![p].iter = it,
                                ![p].headers = Append(@, Sprintf(k, it.got[k]))]
    /\ UNCHANGED <<gHeaders, lastCommitted, openConns, pc, fatal>>

\* Lines 144-152: the range has ended; a "headers" argument is parsed and
\* appended, a parse failure returns.
InvokeRequestHeaders(p) ==
    /\ pc[p] = "inv_read"
    /\ IterMayEnd(loc[p].iter)
    /\ LET l == [loc[p] EXCEPT !.iter.on = FALSE]
           u == Unmarshal(l.args.headers)
       IN  IF l.args.headers = EmptyDoc
           THEN /\ loc' = [loc EXCEPT ![p] = l]
                /\ pc' = [pc EXCEPT ![p] = "inv_dial"]
                /\ UNCHANGED openConns
           ELSE IF u.err
           THEN Return(p, l, toolError("Failed to parse headers JSON", <<>>))
           ELSE \E order \in Orders(DOMAIN u.val) :
                  /\ loc' = [loc EXCEPT ![p] =
                               [l EXCEPT !.headers = AppendRequestHeaders(@, u.val, order)]]
                  /\ pc' = [pc EXCEPT ![p] = "inv_dial"]
                  /\ UNCHANGED openConns
    /\ UNCHANGED <<gHeaders, lastCommitted, fatal>>

\* Lines 165-169.
InvokeDial(p, ok) ==
    /\ pc[p] = "inv_dial"
    /\ BlockingDial(p, loc[p], ok, "inv_formatter")
    /\ UNCHANGED <<gHeaders, lastCommitted, fatal>>

\* Lines 172-199: the reflection client (its Reset deferred), the formatter,
\* whose creation may fail, the event handler and the request supplier.
InvokeFormatter(p, ok) ==
    /\ pc[p] = "inv_formatter"
    /\ LET l == [loc[p] EXCEPT !.defers = Append(@, "refClient.Reset")]
       IN  IF ok
           THEN /\ loc' = [loc EXCEPT ![p] =
                             [l EXCEPT !.handler = NoHandler, !.used = FALSE]]
                /\ pc' = [pc EXCEPT ![p] = "inv_rpc"]
                /\ UNCHANGED openConns
           ELSE Return(p, l, toolError("Failed to create formatter", <<>>))
    /\ UNCHANGED <<gHeaders, lastCommitted, fatal>>

\* grpcurl.InvokeRPC (line 202) rejects a method name that is not of the form
\* service/method before it calls anything.
MethodAccepted(l) == l.args.method # ""

\* grpcurl.InvokeRPC (line 202) calls reqSupplier.Supply.
Supply(p) ==
    /\ pc[p] = "inv_rpc"
    /\ MethodAccepted(loc[p])
    /\ Len(loc[p].supplied) < MaxSupply
    /\ LET l == loc[p]
           s == SupplyCall(l.used, l.args.request)
       IN  loc' = [loc EXCEPT ![p] =
                     [l EXCEPT !.used = s.used,
                               !.supplied = Append(@, s.ret),
                               !.decodes = IF s.decoded THEN @ + 1 ELSE @]]
    /\ UNCHANGED <<gHeaders, lastCommitted, openConns, pc, fatal>>

\* grpcurl.InvokeRPC hands the response headers to the event handler:
\* customEventHandler (lines 29-45) defines no OnReceiveResponseHeaders, so
\* the embedded DefaultEventHandler's runs, which prints them when verbose
\* and stores nothing; h.headers is assigned nowhere.
OnReceiveResponseHeaders(p, md) ==
    /\ pc[p] = "inv_rpc"
    /\ MethodAccepted(loc[p])
    /\ loc[p].sent.nil
    /\ loc[p].frames = <<>>
    /\ ~md.nil
    /\ loc' = [loc EXCEPT ![p].sent = md]
    /\ UNCHANGED <<gHeaders, lastCommitted, openConns, pc, fatal>>

\* customEventHandler.OnReceiveTrailers, lines 36-45; the embedded handler's
\* OnReceiveTrailers (line 44) stores the status.
OnReceiveTrailers(p, st, md) ==
    /\ pc[p] = "inv_rpc"
    /\ MethodAccepted(loc[p])
    /\ Len(loc[p].frames) < MaxFrames
    /\ loc' = [loc EXCEPT ![p].handler.trailers = AccumulateTrailers(@, md),
                          ![p].handler.Status = st,
                          ![p].frames = Append(@, md)]
    /\ UNCHANGED <<gHeaders, lastCommitted, openConns, pc, fatal>>

\* Lines 202-205: InvokeRPC returns, with an error at least when it rejected
\* the method name or the request supplier returned an error.
InvokeRPCReturn(p, err) ==
    /\ pc[p] = "inv_rpc"
    /\ ~err => MethodAccepted(loc[p]) /\ "error" \notin RangeOf(loc[p].supplied)
    /\ IF err
       THEN Return(p, loc[p], toolError("Failed to invoke RPC", <<>>))
       ELSE /\ pc' = [pc EXCEPT ![p] = "inv_result"]
            /\ UNCHANGED <<loc, openConns>>
    /\ UNCHANGED <<gHeaders, lastCommitted, fatal>>

\* Lines 207-233: a non-OK status is an error; otherwise the response with
\* the captured headers and trailers is returned (Status.Code() of a nil
\* status is OK; the response always marshals).
InvokeResult(p) ==
    /\ pc[p] = "inv_result"
    /\ LET l == loc[p]
           h == l.handler
       IN  IF h.Status # Nil /\ h.Status # "OK"
           THEN Return(p, l, toolError("RPC failed", h.Status))
           ELSE Return(p, l, toolSuccess("invoke",
                    [body |-> "outputBuffer",
                     headers |-> metadataToMap(h.headers),
                     trailers |-> metadataToMap(h.trailers),
                     status_code |-> "OK"]))
    /\ UNCHANGED <<gHeaders, lastCommitted, fatal>>

---------------------------------------------------------------------------
(* list (src/main.go:241-279) *)

ReflectionService == "grpc.reflection.v1alpha.ServerReflection"

\* What refClient.ListServices() may return.
ServiceLists ==
    { <<>>,
      <<ReflectionService>>,
      <<"pkg.Svc", ReflectionService>>,
      <<ReflectionService, "pkg.Svc", "pkg.Other">> }

\* Lines 270-276: every service but the reflection service, one per line.
RECURSIVE ListOutput(_)
ListOutput(services) ==
    IF services = <<>> THEN ""
    ELSE (IF Head(services) # ReflectionService THEN Head(services) \o "\n" ELSE "")
           \o ListOutput(Tail(services))

\* Lines 243-257: the handler dials.
ListCall(p, ok) ==
    /\ pc[p] = "idle"
    /\ BlockingDial(p, [Blank EXCEPT !.tool = "list", !.g0 = gHeaders], ok, "list_services")
    /\ UNCHANGED <<gHeaders, lastCommitted, fatal>>

\* Lines 259-278: the services are listed, which may fail, and returned.
ListServices(p, err, services) ==
    /\ pc[p] = "list_services"
    /\ LET l == [loc[p] EXCEPT !.defers = Append(@, "refClient.Reset")]
       IN  IF err
           THEN Return(p, l, toolError("Failed to list services", <<>>))
           ELSE Return(p, l, toolSuccess("list", ListOutput(services)))
    /\ UNCHANGED <<gHeaders, lastCommitted, fatal>>

---------------------------------------------------------------------------
(* describe (src/main.go:293-425) *)

\* Strings whose characters the handler inspects are sequences of characters.
RECURSIVE Str(_)
Str(cs) == IF cs = <<>> THEN "" ELSE Head(cs) \o Str(Tail(cs))

\* strings.Split(cs, ",")
RECURSIVE Split(_)
Split(cs) ==
    IF \A i \in DOMAIN cs : cs[i] # ","
    THEN <<cs>>
    ELSE LET i == CHOOSE j \in DOMAIN cs :
                     cs[j] = "," /\ \A m \in 1..(j - 1) : cs[m] # ","
         IN  <<SubSeq(cs, 1, i - 1)>> \o Split(SubSeq(cs, i + 1, Len(cs)))

\* The "entities" argument: missing, a string, an array whose items are
\* strings or not, or a value of another type.
AbsentEntities == [shape |-> "absent", text |-> <<>>, items |-> <<>>]
OtherEntities == [shape |-> "other", text |-> <<>>, items |-> <<>>]
StringEntities(cs) == [shape |-> "string", text |-> cs, items |-> <<>>]
ArrayEntities(items) == [shape |-> "array", text |-> <<>>, items |-> items]

StringItem(cs) == [str |-> TRUE, text |-> cs]
NumberItem == [str |-> FALSE, text |-> <<"1">>]

EntityTexts ==
    { <<>>, <<"M">>, <<".", "S">>, <<"X">>, <<"M", ",", "X", ",", "S">>,
      <<"E", ",", "G">>, <<"M", ",", "B">>, <<"M", ",">> }

EntityItems == {StringItem(<<"M">>), StringItem(<<".", "T">>), StringItem(<<"X">>), NumberItem}

DescribeArgs ==
    {AbsentEntities, OtherEntities}
      \cup {StringEntities(cs) : cs \in EntityTexts}
      \cup {ArrayEntities(items) :
              items \in UNION {[1..n -> EntityItems] : n \in 0..MaxEntities}}

\* The descriptors the server's reflection service resolves, by name.
Dsc(type, fqn) ==
    [type |-> type, fqn |-> fqn, parentIsMessage |-> FALSE, isMapEntry |-> FALSE,
     field |-> "", isGroup |-> FALSE, isExtension |-> FALSE, textFails |-> FALSE]

Symbols ==
    [n \in {"M", "E", "G", "N", "B", "F", "P", "X1", "O", "U", "V", "S", "T"} |->
       CASE n = "M" -> Dsc("Message", "M")
         [] n = "E" -> [Dsc("Message", "E") EXCEPT !.parentIsMessage = TRUE,
                          !.isMapEntry = TRUE, !.field = "M.e"]
         [] n = "G" -> [Dsc("Message", "G") EXCEPT !.parentIsMessage = TRUE, !.field = "M.g"]
         [] n = "N" -> [Dsc("Message", "N") EXCEPT !.parentIsMessage = TRUE]
         [] n = "B" -> [Dsc("Message", "B") EXCEPT !.textFails = TRUE]
         [] n = "F" -> Dsc("Field", "F")
         [] n = "P" -> [Dsc("Field", "P") EXCEPT !.isGroup = TRUE]
         [] n = "X1" -> [Dsc("Field", "X1") EXCEPT !.isExtension = TRUE]
         [] n = "O" -> Dsc("OneOf", "O")
         [] n = "U" -> Dsc("Enum", "U")
         [] n = "V" -> Dsc("EnumValue", "V")
         [] n = "S" -> Dsc("Service", "S")
         [] n = "T" -> Dsc("Method", "T")]

\* descSource.FindSymbol(name), line 346.
FindSymbol(name) ==
    IF name \in DOMAIN Symbols
    THEN [err |-> FALSE, dsc |-> Symbols[name]]
    ELSE [err |-> TRUE, dsc |-> Dsc("none", "")]

\* Lines 355-396: the kind of the descriptor, and whether the text described
\* is that of the map or group field declaring the message.
ElementType(d) ==
    CASE d.type = "Message" ->
           IF d.parentIsMessage /\ d.field # ""
           THEN [ok |-> TRUE, field |-> TRUE,
                 label |-> IF d.isMapEntry THEN "the entry type for a map field"
                           ELSE "the type of a group field"]
           ELSE [ok |-> TRUE, field |-> FALSE, label |-> "a message"]
      [] d.type = "Field" ->
           [ok |-> TRUE, field |-> FALSE,
            label |-> IF d.isGroup THEN "a group field"
                      ELSE IF d.isExtension THEN "an extension" ELSE "a field"]
      [] d.type = "OneOf" -> [ok |-> TRUE, field |-> FALSE, label |-> "a one-of"]
      [] d.type = "Enum" -> [ok |-> TRUE, field |-> FALSE, label |-> "an enum"]
      [] d.type = "EnumValue" -> [ok |-> TRUE, field |-> FALSE, label |-> "an enum value"]
      [] d.type = "Service" -> [ok |-> TRUE, field |-> FALSE, label |-> "a service"]
      [] d.type = "Method" -> [ok |-> TRUE, field |-> FALSE, label |-> "a method"]
      [] OTHER -> [ok |-> FALSE, field |-> FALSE, label |-> ""]

\* Lines 340-343: a leading dot is removed.
StripDot(cs) == IF cs # <<>> /\ cs[1] = "." THEN Tail(cs) ELSE cs

\* A faulty iteration: an entity that does not resolve is skipped.
DescribeSkipsFailure(cs) ==
    LET name == Str(StripDot(cs))
        f == FindSymbol(name)
    IN  IF f.err THEN [err |-> FALSE, text |-> ""]
        ELSE [err |-> FALSE,
              text |-> f.dsc.fqn \o " is " \o ElementType(f.dsc).label \o ":\n"
                         \o "<" \o f.dsc.fqn \o ">"]

\* What one iteration of the loop (lines 339-422) does with an entity: the
\* error it returns, or the description it appends.
DescribeOne(cs) ==
    LET name == Str(StripDot(cs))
        f == FindSymbol(name)
        e == ElementType(f.dsc)
        target == IF e.field THEN f.dsc.field ELSE f.dsc.fqn
    IN  IF f.err
        THEN [err |-> TRUE,
              text |-> "Failed to resolve symbol \"" \o name \o "\": Symbol not found: " \o name]
        ELSE IF ~e.ok
        THEN [err |-> TRUE, text |-> "descriptor has unrecognized type " \o f.dsc.type]
        ELSE IF f.dsc.textFails
        THEN [err |-> TRUE,
              text |-> "Failed to describe symbol \"" \o name \o "\": no text"]
        ELSE [err |-> FALSE,
              text |-> f.dsc.fqn \o " is " \o e.label \o ":\n" \o "<" \o target \o ">"]

\* strings.Join(results, "\n\n")
RECURSIVE Join(_)
Join(results) ==
    IF results = <<>> THEN ""
    ELSE IF Len(results) = 1 THEN results[1]
    ELSE results[1] \o "\n\n" \o Join(Tail(results))

\* Lines 295-309: the handler dials before it reads its arguments.
DescribeCall(p, a, ok) ==
    /\ pc[p] = "idle"
    /\ BlockingDial(p, [Blank EXCEPT !.tool = "describe", !.args = a, !.g0 = gHeaders],
                    ok, "desc_args")
    /\ UNCHANGED <<gHeaders, lastCommitted, fatal>>

\* Lines 311-335: "entities" is a string split at commas or an array of
\* strings; anything else leaves no entity.
DescribeEntities(p) ==
    /\ pc[p] = "desc_args"
    /\ LET l == [loc[p] EXCEPT !.defers = Append(@, "refClient.Reset")]
           a == l.args
           bad == {i \in DOMAIN a.items : ~a.items[i].str}
           tmp == IF a.shape = "string" THEN Split(a.text)
                  ELSE IF a.shape = "array"
                  THEN [i \in DOMAIN a.items |-> a.items[i].text]
                  ELSE <<>>
       IN  IF a.shape = "array" /\ bad # {}
           THEN Return(p, l,
                  toolError("entities argument should be an array of strings instead of "
                              \o Str(a.items[CHOOSE i \in bad : \A j \in bad : i <= j].text),
                            <<>>))
           ELSE IF Len(tmp) = 0
           THEN Return(p, l, toolError("No entities provided", <<>>))
           ELSE /\ loc' = [loc EXCEPT ![p] = [l EXCEPT !.tmp = tmp]]
                /\ pc' = [pc EXCEPT ![p] = "desc_loop"]
                /\ UNCHANGED openConns
    /\ UNCHANGED <<gHeaders, lastCommitted, fatal>>

\* Lines 339-422: one iteration of the loop over the entities.
DescribeEntity(p) ==
    /\ pc[p] = "desc_loop"
    /\ Len(loc[p].results) < Len(loc[p].tmp)
    /\ LET l == loc[p]
           cs == l.tmp[Len(l.results) + 1]
           d == DescribeOne(cs)
           l1 == [l EXCEPT !.lookups = Append(@, Str(StripDot(cs)))]
       IN  IF d.err
           THEN Return(p, l1, toolError(d.text, <<>>))
           ELSE /\ loc' = [loc EXCEPT ![p] = [l1 EXCEPT !.results = Append(@, d.text)]]
                /\ UNCHANGED <<pc, openConns>>
    /\ UNCHANGED <<gHeaders, lastCommitted, fatal>>

\* Line 424.
DescribeReturn(p) ==
    /\ pc[p] = "desc_loop"
    /\ Len(loc[p].results) = Len(loc[p].tmp)
    /\ Return(p, loc[p], toolSuccess("describe", Join(loc[p].results)))
    /\ UNCHANGED <<gHeaders, lastCommitted, fatal>>

---------------------------------------------------------------------------
(* The Go runtime on unsynchronised map accesses *)

\* Handler p is between two of its stores to g.headers (lines 94-101).
MidUpdate(p) ==
    /\ pc[p] = "sh_update"
    /\ loc[p].args.clear \/ loc[p].todo # DOMAIN loc[p].newHeaders

\* Handler p is inside a range over the map g.headers names (lines 105-107,
\* 139-141).
MidRange(p) == pc[p] \in {"sh_read", "inv_read"} /\ loc[p].iter.on

\* A store into a map that another goroutine ranges over or stores into is a
\* data race; the runtime may detect it and end the process ("concurrent map
\* iteration and map write", "concurrent map writes").
RuntimeFatal(p) ==
    /\ pc[p] = "sh_update"
    /\ \E q \in Procs \ {p} :
          \/ pc[q] = "sh_update"
          \/ MidRange(q) /\ loc[q].iter.attached
    /\ fatal' = TRUE
    /\ UNCHANGED <<gHeaders, lastCommitted, openConns, pc, loc>>

---------------------------------------------------------------------------
(* Specifications *)

\* The server takes one call at a time: a single slot runs the handlers.
Serial(p) == p = 1

Next ==
    \/ \E p \in Procs, a \in SetHeadersArgs : Serial(p) /\ SetHeadersCall(p, a)
    \/ \E p \in Procs : Serial(p) /\ SetHeadersClear(p)
    \/ \E p \in Procs : Serial(p) /\ SetHeadersUpdate(p)
    \/ \E p \in Procs : Serial(p) /\ SetHeadersRange(p)
    \/ \E p \in Procs : Serial(p) /\ SetHeadersRead(p)
    \/ \E p \in Procs : Serial(p) /\ SetHeadersReturn(p)
    \/ \E p \in Procs, a \in InvokeArgs : Serial(p) /\ InvokeCall(p, a)
    \/ \E p \in Procs : Serial(p) /\ InvokeRead(p)
    \/ \E p \in Procs : Serial(p) /\ InvokeRequestHeaders(p)
    \/ \E p \in Procs, ok \in BOOLEAN : Serial(p) /\ InvokeDial(p, ok)
    \/ \E p \in Procs, ok \in BOOLEAN : Serial(p) /\ InvokeFormatter(p, ok)
    \/ \E p \in Procs : Serial(p) /\ Supply(p)
    \/ \E p \in Procs, md \in LightMDs : Serial(p) /\ OnReceiveResponseHeaders(p, md)
    \/ \E p \in Procs, st \in Statuses, md \in LightMDs \ {NilMD} :
          Serial(p) /\ OnReceiveTrailers(p, st, md)
    \/ \E p \in Procs, err \in BOOLEAN : Serial(p) /\ InvokeRPCReturn(p, err)
    \/ \E p \in Procs : Serial(p) /\ InvokeResult(p)
    \/ \E p \in Procs, ok \in BOOLEAN : Serial(p) /\ ListCall(p, ok)
    \/ \E p \in Procs, err \in BOOLEAN, services \in ServiceLists :
          Serial(p) /\ ListServices(p, err, services)
    \/ \E p \in Procs, a \in DescribeArgs, ok \in BOOLEAN : Serial(p) /\ DescribeCall(p, a, ok)
    \/ \E p \in Procs : Serial(p) /\ DescribeEntities(p)
    \/ \E p \in Procs : Serial(p) /\ DescribeEntity(p)
    \/ \E p \in Procs : Serial(p) /\ DescribeReturn(p)
    \/ \E p \in Procs : Serial(p) /\ Reply(p)

Spec == Init /\ [][Next]_vars

\* One invoke at a time against servers that send any of RichMDs as headers
\* and as trailer frames; no global header is set.
RpcArgs == {a \in InvokeArgs : a.headers = EmptyDoc /\ a.method # ""}

RpcNext ==
    \/ \E p \in Procs, a \in RpcArgs : Serial(p) /\ InvokeCall(p, a)
    \/ \E p \in Procs : Serial(p) /\ InvokeRequestHeaders(p)
    \/ \E p \in Procs, ok \in BOOLEAN : Serial(p) /\ InvokeDial(p, ok)
    \/ \E p \in Procs, ok \in BOOLEAN : Serial(p) /\ InvokeFormatter(p, ok)
    \/ \E p \in Procs : Serial(p) /\ Supply(p)
    \/ \E p \in Procs, md \in LightMDs : Serial(p) /\ OnReceiveResponseHeaders(p, md)
    \/ \E p \in Procs, st \in Statuses, md \in RichMDs :
          Serial(p) /\ OnReceiveTrailers(p, st, md)
    \/ \E p \in Procs, err \in BOOLEAN : Serial(p) /\ InvokeRPCReturn(p, err)
    \/ \E p \in Procs : Serial(p) /\ InvokeResult(p)
    \/ \E p \in Procs : Serial(p) /\ Reply(p)

RpcSpec == Init /\ [][RpcNext]_vars

\* Handlers run concurrently, one per slot, against a server that cannot be
\* reached: set-headers calls and invoke calls interleave at their accesses
\* to g.headers.
ConcHeaderDocs == {Obj(<< <<"a", "y">>, <<"b", "y">> >>)}

ConcSetHeadersArgs == [headers : ConcHeaderDocs, clear : BOOLEAN]

ConcInvokeArgs == [method : {"pkg.Svc/Method"}, request : {"{valid}"}, headers : {EmptyDoc}]

Running(p) == ~fatal

ConcNext ==
    \/ \E p \in Procs, a \in ConcSetHeadersArgs : Running(p) /\ SetHeadersCall(p, a)
    \/ \E p \in Procs : Running(p) /\ SetHeadersClear(p)
    \/ \E p \in Procs : Running(p) /\ SetHeadersUpdate(p)
    \/ \E p \in Procs : Running(p) /\ SetHeadersRange(p)
    \/ \E p \in Procs : Running(p) /\ SetHeadersRead(p)
    \/ \E p \in Procs : Running(p) /\ SetHeadersReturn(p)
    \/ \E p \in Procs, a \in ConcInvokeArgs : Running(p) /\ InvokeCall(p, a)
    \/ \E p \in Procs : Running(p) /\ InvokeRead(p)
    \/ \E p \in Procs : Running(p) /\ InvokeRequestHeaders(p)
    \/ \E p \in Procs : Running(p) /\ InvokeDial(p, FALSE)
    \/ \E p \in Procs : Running(p) /\ Reply(p)
    \/ \E p \in Procs : Running(p) /\ RuntimeFatal(p)

ConcSpec == Init /\ [][ConcNext]_vars

---------------------------------------------------------------------------
(* Claims *)

Done(p, tool) == pc[p] = "done" /\ loc[p].tool = tool

\* G with the entries of H stored over it.
Union(G, H) ==
    [k \in DOMAIN G \cup DOMAIN H |-> IF k \in DOMAIN H THEN H[k] ELSE G[k]]

\* C1: a set-headers call with header mapping H made when the global mapping
\* is G (G being what the calls before it left, so after set-headers(H1) the
\* union of the earlier mapping and H1) leaves the global mapping equal to the
\* key-wise union of G and H with H's value on every key of H when clear is
\* false, and equal to exactly H when clear is true; the mapping returned for
\* display is the resulting global mapping.
C1_SetHeadersUnionOrReplace ==
    \A p \in Procs :
        Done(p, "set-headers") /\ ~loc[p].result.isError =>
            LET H == DecodeMembers(loc[p].args.headers.members, EmptyMap)
                G == loc[p].g0
            IN  /\ gHeaders = IF loc[p].args.clear THEN H ELSE Union(G, H)
                /\ loc[p].result.val = gHeaders

C1_Witness ==
    \E p \in Procs :
        /\ Done(p, "set-headers")
        /\ ~loc[p].result.isError
        /\ ~loc[p].args.clear
        /\ loc[p].g0 = [k \in {"a", "b"} |-> IF k = "a" THEN "x" ELSE "y"]
        /\ loc[p].args.headers = Obj(<< <<"a", "x">>, <<"a", "y">> >>)
        /\ gHeaders = [k \in {"a", "b"} |-> "y"]
        /\ loc[p].result.val = gHeaders

\* No two handlers are between two of their accesses to the map g.headers
\* names at the same time when one of them is storing.
MutualExclusion ==
    \A p, q \in Procs :
        p # q /\ MidUpdate(p) =>
            /\ ~MidUpdate(q)
            /\ ~(MidRange(q) /\ loc[q].iter.attached)

\* A range over g.headers that has ended produced the mapping as it was
\* before or after a whole set-headers update.
ConsistentSnapshot ==
    \A p \in Procs :
        loc[p].iter.snaps # {} /\ ~loc[p].iter.on => loc[p].iter.got \in loc[p].iter.snaps

\* C2: accesses to the global header mapping are serialized: concurrent
\* handlers never access it at the same time with one of them writing, every
\* read (for display, for merging into a call) observes the mapping as it is
\* before or after a whole set-headers update, and the runtime never finds a
\* concurrent map access.
C2_AccessesSerialized == MutualExclusion /\ ConsistentSnapshot /\ ~fatal

\* C3: an operation dials at most once; a connection that was dialled is
\* closed when the operation has returned, whatever the exit path; a failed
\* dial leaves no connection and ends the operation with the connection
\* error; when no operation is in progress no connection is open.
C3_ConnectionClosedOnReturn ==
    /\ openConns = Cardinality({p \in Procs : loc[p].cc = "open"})
    /\ \A p \in Procs :
         /\ loc[p].dials <= 1
         /\ loc[p].cc # Nil => loc[p].dials = 1
         /\ pc[p] \in {"idle", "done"} => loc[p].cc # "open"
         /\ loc[p].dials = 1 /\ loc[p].cc = Nil =>
              /\ pc[p] = "done"
              /\ loc[p].result.isError
              /\ loc[p].result.msg = "Failed to create gRPC connection"
    /\ (\A p \in Procs : pc[p] \in {"idle", "done"}) => openConns = 0

C3_Witness ==
    \E p \in Procs :
        /\ Done(p, "invoke")
        /\ loc[p].cc = "closed"
        /\ loc[p].result.msg = "RPC failed"
        /\ openConns = 0

\* C4: the request supplier is one-shot: used is false until the first Supply
\* call and true ever after; the first call decodes the request and returns
\* the decoder's result, every later call returns end of input and decodes
\* nothing, also when the first call returned an error.
C4_SupplierOneShot ==
    \A p \in Procs :
        LET l == loc[p]
            n == Len(l.supplied)
        IN  /\ l.used <=> n >= 1
            /\ l.decodes = IF n >= 1 THEN 1 ELSE 0
            /\ n >= 1 => l.supplied[1] = JsonpbUnmarshal(l.args.request)
            /\ \A i \in 2..n : l.supplied[i] = "EOF"

C4_Witness ==
    \E p \in Procs :
        /\ loc[p].tool = "invoke"
        /\ loc[p].supplied = <<"error", "EOF">>
        /\ loc[p].used

\* The values of key k in the frames, concatenated in delivery order.
RECURSIVE ValuesOf(_, _)
ValuesOf(frames, k) ==
    IF frames = <<>> THEN <<>>
    ELSE (IF k \in DOMAIN Head(frames).md THEN Head(frames).md[k] ELSE <<>>)
           \o ValuesOf(Tail(frames), k)

\* C5: after any sequence of trailer frames the captured trailers hold, for
\* every key of any frame, the values of the key in all frames concatenated in
\* delivery order, and hold no other key.
C5_TrailersAppend ==
    \A p \in Procs :
        LET tr == loc[p].handler.trailers
            fr == loc[p].frames
            keys == UNION {DOMAIN fr[i].md : i \in DOMAIN fr}
        IN  /\ DOMAIN tr.md = keys
            /\ \A k \in keys : tr.md[k] = ValuesOf(fr, k)

C5_Witness ==
    \E p \in Procs :
        /\ Len(loc[p].frames) = 2
        /\ loc[p].frames[1] = MD([k \in {"k"} |-> <<"a">>])
        /\ loc[p].frames[2] = MD([k \in {"k", "j"} |-> IF k = "k" THEN <<"a", "b">> ELSE <<"b">>])
        /\ loc[p].handler.trailers.md["k"] = <<"a", "a", "b">>
        /\ loc[p].handler.trailers.md["j"] = <<"b">>

\* C6: the headers field of a successful invoke result holds every header
\* key the server sent on the call, with its values.
C6_HeadersReturned ==
    \A p \in Procs :
        Done(p, "invoke") /\ ~loc[p].result.isError =>
            /\ DOMAIN loc[p].result.val.headers = DOMAIN metadataToMap(loc[p].sent)
            /\ \A k \in DOMAIN loc[p].result.val.headers :
                 loc[p].result.val.headers[k] = metadataToMap(loc[p].sent)[k]

\* C7: the header list handed to the RPC call is one "name: value" entry for
\* each entry of the global mapping followed by one for each per-call entry;
\* a per-call key that is also a global key adds an entry and the global
\* entry stays.
C7_HeadersGlobalThenPerCall ==
    \A p \in Procs :
        pc[p] = "inv_rpc" =>
            LET G == gHeaders
                P == DecodeMembers(loc[p].args.headers.members, EmptyMap)
                h == loc[p].headers
                n == Cardinality(DOMAIN G)
            IN  /\ Len(h) = n + Cardinality(DOMAIN P)
                /\ {h[i] : i \in 1..n} = {G_k \o ": " \o G[G_k] : G_k \in DOMAIN G}
                /\ {h[i] : i \in (n + 1)..Len(h)} = {P_k \o ": " \o P[P_k] : P_k \in DOMAIN P}

C7_Witness ==
    \E p \in Procs :
        /\ pc[p] = "inv_rpc"
        /\ gHeaders = [k \in {"a", "b"} |-> "y"]
        /\ loc[p].args.headers = Obj(<< <<"a", "x">> >>)
        /\ loc[p].headers[3] = "a: x"
        /\ "a: y" \in {loc[p].headers[1], loc[p].headers[2]}

\* An entity the server does not resolve or does not render.
Undescribable(cs) ==
    LET name == Str(StripDot(cs))
    IN  name \notin DOMAIN Symbols \/ Symbols[name].textFails

FailureText(cs) ==
    LET name == Str(StripDot(cs))
    IN  IF name \notin DOMAIN Symbols
        THEN "Failed to resolve symbol \"" \o name \o "\": Symbol not found: " \o name
        ELSE "Failed to describe symbol \"" \o name \o "\": no text"

\* C8: a describe batch ends at its first entity that fails to resolve or to
\* render: the result is the error naming that symbol and holds no
\* description, no later entity is looked up; a batch with no such entity
\* succeeds with the descriptions of all its entities in order, whatever
\* calls came before; either way the call leaves the global mapping and the
\* connections as they were.
C8_DescribeStopsAtFirstFailure ==
    \A p \in Procs :
        Done(p, "describe") /\ loc[p].tmp # <<>> =>
            LET l == loc[p]
                names == [j \in DOMAIN l.tmp |-> Str(StripDot(l.tmp[j]))]
                fails == {j \in DOMAIN l.tmp : Undescribable(l.tmp[j])}
                first == CHOOSE j \in fails : \A m \in fails : j <= m
            IN  /\ gHeaders = l.g0
                /\ openConns = 0
                /\ IF fails # {}
                   THEN /\ l.result.isError
                        /\ l.result.msg = FailureText(l.tmp[first])
                        /\ l.lookups = SubSeq(names, 1, first)
                        /\ Len(l.results) = first - 1
                   ELSE /\ ~l.result.isError
                        /\ l.lookups = names
                        /\ l.result.val = Join([j \in DOMAIN l.tmp |-> DescribeOne(l.tmp[j]).text])

C8_Witness ==
    \E p \in Procs :
        /\ Done(p, "describe")
        /\ loc[p].args = StringEntities(<<"M", ",", "X", ",", "S">>)
        /\ loc[p].result.isError
        /\ loc[p].lookups = <<"M", "X">>
        /\ Len(loc[p].results) = 1

\* A required argument is missing or has the wrong shape.
BadArguments(l) ==
    \/ l.tool = "set-headers" /\ l.args.headers = EmptyDoc
    \/ l.tool = "invoke" /\ (l.args.method = "" \/ l.args.request = "")
    \/ l.tool = "describe" /\
         \/ l.args.shape \in {"absent", "other"}
         \/ \E i \in DOMAIN l.args.items : ~l.args.items[i].str

ArgumentErrors ==
    { "Failed to parse headers JSON",
      "No entities provided",
      "entities argument should be an array of strings instead of 1" }

\* C9: an operation called with a missing required argument or a
\* wrong-shaped argument returns an argument error, whatever the state of the
\* target server.
C9_ArgumentErrorFirst ==
    \A p \in Procs :
        pc[p] = "done" /\ BadArguments(loc[p]) =>
            loc[p].result.isError /\ loc[p].result.msg \in ArgumentErrors

\* C10: a step changes the global header mapping only when it is a step of a
\* set-headers call whose headers argument parsed; a set-headers call whose
\* argument does not parse, and every step of invoke, list and describe,
\* leaves it unchanged.
C10_OnlyParsedSetHeadersWrites ==
    [][gHeaders' # gHeaders =>
         \E p \in Procs :
             /\ loc[p].tool = "set-headers"
             /\ loc[p].args.headers.text = "object"
             /\ pc[p] \in {"sh_clear", "sh_update"}]_vars

C10_Witness ==
    \E p \in Procs :
        /\ Done(p, "set-headers")
        /\ loc[p].result.isError
        /\ loc[p].args.clear
        /\ loc[p].args.headers = MalformedDoc
        /\ gHeaders = [k \in {"a", "b"} |-> "y"]

=============================================================================
